---- MODULE Spec2Model ----
(***************************************************************************)
(* ocdsextensionsdatacollector: the MarkdownTranslator node visitor        *)
(* (markdown_translator.py) walked over a docutils tree, and the download  *)
(* command (cli/commands/download.py).                                     *)
(*                                                                         *)
(* Python strings that end up in the output are sequences of characters    *)
(* (one-character strings); names that are only compared (tag names,       *)
(* context entries, language codes) are strings, turned into characters by *)
(* Chars when they are written.                                            *)
(***************************************************************************)
EXTENDS Integers, Sequences, FiniteSets, TLC

\* ------------------------------------------------------------------ bounds

\* Nodes below the document in a tree over the whole vocabulary.
MaxNodes == 2
\* Nodes below the document in a tree of sections, titles and paragraphs.
MaxTitleNodes == 3
\* Nodes below the document in a tree with system messages.
MaxMessageNodes == 3
\* Nodes below the document in a tree of lists, quotes, raw nodes and cells.
MaxStackNodes == 4
\* Nodes below the document in a tree that is rendered twice.
MaxTwiceNodes == 2
\* Versions the download command is asked for.
MaxVersions == 2
\* Nodes below the document in a tree of lists and list items.
MaxListNodes == 6
\* Nodes below the document in a tree of tables with rows and cells.
MaxTableNodes == 11
\* Nodes below the document in a tree of tables with column specifications.
MaxColumnNodes == 8
\* Nodes below the document in a tree of tables with columns of many widths.
MaxWidthNodes == 5
\* The largest of the small column widths.
MaxWidth == 8
\* Nodes below the document in a tree of titles, paragraphs, raw nodes and text.
MaxTextNodes == 4
\* Nodes below the document in a tree of tables with filled cells.
MaxCellNodes == 10

\* ----------------------------------------------------------------- strings

NL == "\n"

Whitespace == {" ", NL, "\t", "\r"}

\* The backquote character, which a TLA+ string cannot hold.
Backquote == "BACKQUOTE"

\* The code fence of a literal block: three backquotes.
Fence == <<Backquote, Backquote, Backquote>>

Digit == <<"0", "1", "2", "3", "4", "5", "6", "7", "8", "9">>

Chars(name) ==
    CASE name = "table" -> <<"t", "a", "b", "l", "e">>
      [] name = "thead" -> <<"t", "h", "e", "a", "d">>
      [] name = "tbody" -> <<"t", "b", "o", "d", "y">>
      [] name = "tr" -> <<"t", "r">>
      [] name = "th" -> <<"t", "h">>
      [] name = "td" -> <<"t", "d">>
      [] name = "colgroup" -> <<"c", "o", "l", "g", "r", "o", "u", "p">>
      [] name = "col" -> <<"c", "o", "l">>
      [] name = "border" -> <<"b", "o", "r", "d", "e", "r">>
      [] name = "CLASS" -> <<"C", "L", "A", "S", "S">>
      [] name = "class" -> <<"c", "l", "a", "s", "s">>
      [] name = "valign" -> <<"v", "a", "l", "i", "g", "n">>
      [] name = "width" -> <<"w", "i", "d", "t", "h">>
      [] name = "ids" -> <<"i", "d", "s">>
      [] name = "align" -> <<"a", "l", "i", "g", "n">>
      [] name = "block-raw" -> <<"b", "l", "o", "c", "k", "-", "r", "a", "w">>
      [] name = "block-quote" ->
             <<"b", "l", "o", "c", "k", "-", "q", "u", "o", "t", "e">>
      [] OTHER -> <<>>

\* str.lower() of one character, over the capitals the attribute names use.
LowerChar(c) ==
    CASE c = "C" -> "c"
      [] c = "L" -> "l"
      [] c = "A" -> "a"
      [] c = "S" -> "s"
      [] OTHER -> c

lower(s) == [i \in 1..Len(s) |-> LowerChar(s[i])]

RECURSIVE lstrip(_)
lstrip(s) ==
    IF s # <<>> /\ Head(s) \in Whitespace THEN lstrip(Tail(s)) ELSE s

RECURSIVE rstrip(_)
rstrip(s) ==
    IF s # <<>> /\ s[Len(s)] \in Whitespace
    THEN rstrip(SubSeq(s, 1, Len(s) - 1))
    ELSE s

\* str.strip()
strip(s) == rstrip(lstrip(s))

\* str(n) / '{}'.format(n) of a non-negative integer
RECURSIVE str(_)
str(n) ==
    IF n < 10 THEN <<Digit[n + 1]>> ELSE str(n \div 10) \o <<Digit[(n % 10) + 1]>>

\* '#' * n, '  ' * n: a string repeated n times ('' when n <= 0)
RECURSIVE Repeat(_, _)
Repeat(s, n) == IF n <= 0 THEN <<>> ELSE s \o Repeat(s, n - 1)

\* s[:-1]
ButLast(s) == SubSeq(s, 1, Len(s) - 1)

RECURSIVE SumSeq(_)
SumSeq(s) == IF s = <<>> THEN 0 ELSE Head(s) + SumSeq(Tail(s))

\* -------------------------------------------------------- translation data

Intro == <<"I", "n", "t", "r", "o">>
Hello == <<"H", "e", "l", "l", "o">>
Presentation == <<"P", "r", "é", "s", "e", "n", "t", "a", "t", "i", "o", "n">>
Bonjour == <<"B", "o", "n", "j", "o", "u", "r">>
\* A source text with surrounding whitespace, absent from every catalog.
PaddedHi == <<" ", "H", "i", NL>>

\* The raw source texts of titles and paragraphs.
Messages == {Intro, Hello, PaddedHi}

Languages == {"en", "fr", "es"}

\* The catalog directory: it holds a catalog of the domain for "fr" only.
LocaleDir == "locale"

FrCatalog == {<<Intro, Presentation>>, <<Hello, Bonjour>>}

\* gettext.find: does localedir hold a catalog of the domain for language?
CatalogFound(dir, lang) == dir = LocaleDir /\ lang = "fr"

\* gettext.translation(domain, localedir, languages=[language], fallback=...):
\* the catalog's messages, none (NullTranslations) when there is no catalog and
\* fallback is set.  Without a catalog and without fallback it raises.
translation_raises(dir, lang, fallback) ==
    ~CatalogFound(dir, lang) /\ ~fallback

translation(dir, lang, fallback) ==
    IF CatalogFound(dir, lang) THEN FrCatalog ELSE {}

\* translator.gettext(message): the catalog's entry, else the message itself.
gettext(translator, message) ==
    IF \E p \in translator : p[1] = message
    THEN (CHOOSE p \in translator : p[1] = message)[2]
    ELSE message

\* ------------------------------------------------------------------- nodes

\* Attributes every docutils element carries, empty by default.
DefaultAttributes == <<[name |-> "ids", value |-> <<>>]>>

\* A docutils node as the visitor reads it: tagname, the attributes it looks
\* up (level, colwidth, language; the other attributes as name/value pairs in
\* dictionary order), rawsource, astext() of a Text node, and the tag names of
\* node.parent and node.parent.parent ("" when there is none).
Node(tagname) ==
    [tagname |-> tagname, level |-> 0, colwidth |-> 0, language |-> <<>>,
     rawsource |-> <<>>, astext |-> <<>>, attributes |-> DefaultAttributes,
     parent |-> "", grandparent |-> ""]

\* The node argument None of html_tag and close_html_tag.
None == Node("")

AlignLeft == [name |-> "align", value |-> <<"l", "e", "f", "t">>]

Json == <<"j", "s", "o", "n">>
CodeSource == <<"{", "}", NL>>
RawMarkup == <<"<", "b", ">">>

\* Heading levels of section nodes.
HeadingLevels == {1, 2}

\* Column widths of colspec nodes.
ColWidths == {0, 30, 70}

\* Column widths of colspec nodes where the percentages are looked at: the
\* small widths, with the ties among their percentages, and 30 and 70.
Widths == (0..MaxWidth) \cup {30, 70}

\* Node kinds for which the visitor defines neither hook.
UnknownKinds == {"tgroup", "emphasis"}

Kinds ==
    {"section", "title", "paragraph", "block_quote", "literal_block", "raw",
     "bullet_list", "enumerated_list", "list_item", "table", "colspec",
     "thead", "tbody", "row", "entry", "Text", "system_message"}
    \cup UnknownKinds

\* The nodes of each kind a tree is built from.
Nodes(tagname) ==
    CASE tagname = "section" ->
             {[Node(tagname) EXCEPT !.level = l] : l \in HeadingLevels}
      [] tagname \in {"title", "paragraph"} ->
             {[Node(tagname) EXCEPT !.rawsource = m] : m \in Messages}
      [] tagname = "literal_block" ->
             {[Node(tagname) EXCEPT !.rawsource = CodeSource, !.language = g] :
                 g \in {<<>>, Json}}
      [] tagname = "Text" -> {[Node(tagname) EXCEPT !.astext = RawMarkup]}
      [] tagname = "colspec" ->
             {[Node(tagname) EXCEPT !.colwidth = w] : w \in ColWidths}
      [] tagname = "table" ->
             {[Node(tagname) EXCEPT !.attributes = a] :
                 a \in {DefaultAttributes, DefaultAttributes \o <<AlignLeft>>}}
      [] OTHER -> {Node(tagname)}

\* Text and colspec nodes have no children; the document is the root only.
Leaves == {"Text", "colspec"}

\* -------------------------------------------------------- download command

\* The versions self.versions() yields, in order.
Versions == 1..MaxVersions

\* The choices of --overwrite, and "unset" for the option not given.
OverwriteChoices == {"any", "none", "live"}

\* A version directory: absent, or a directory with the files of the version
\* ("none" of them, "some" or "all"), written by the run in progress ("new") or
\* there before it ("old").
Absent == [exists |-> FALSE, files |-> "none", age |-> "old"]

Directory(files, age) == [exists |-> TRUE, files |-> files, age |-> age]

Directories ==
    {Absent} \cup {Directory(f, "old") : f \in {"none", "some", "all"}}

\* ------------------------------------------------------------------- state

VARIABLES
    pc,          \* "new", "walk", "done" (astext read) or "error" (raised)
    language,    \* constructor argument
    limit,       \* the most nodes a tree has below its document
    record,      \* whether the tree walked is recorded
    calls,       \* render calls made on the tree
    call,        \* the render call in progress
    self,        \* the MarkdownTranslator instance
    path,        \* the open nodes: document first, the node being visited last
    visited,     \* nodes the first walk has entered below the document
    pos,         \* hook calls of the walk in progress, when recorded
    walked,      \* the recorded tree: the hook calls of the first walk, in order
    trace,       \* the instance after each step of the first call
    shadow,      \* the same visitor walked over the tree without its
                 \* system_message subtrees
    tables,      \* the open tables, outermost first: what the walk has met in
                 \* each of them so far
    dpc,         \* download command: "idle", the step of handle on the version
                 \* in turn ("is_dir", "mkdir", "get", "extract"), "done",
                 \* "CommandError" or "failed" (another exception)
    overwrite,   \* download command: the --overwrite option, "unset" if not given
    dated,       \* download command: whether each version has a date
    version,     \* download command: the version in turn
    fs,          \* the output directory: the directory of each version
    before       \* the output directory when the run in progress began

rendervars ==
    <<pc, language, limit, record, calls, call, self, path, visited, pos, walked,
      trace, shadow, tables>>

downloadvars == <<dpc, overwrite, dated, version, fs, before>>

vars == <<rendervars, downloadvars>>

\* ------------------------------------------------------ MarkdownTranslator

\* __init__ with the colspecs list shared by all instances.
MarkdownTranslator_shared_colspecs(document, domain, dir, lang) ==
    [writing |-> TRUE,
     context |-> <<"None">>,
     markers |-> <<>>,
     colspecs |-> self.colspecs,
     table_row_index |-> 0,
     text |-> <<>>,
     translator |-> translation(dir, lang, lang = "en")]

\* __init__
MarkdownTranslator(document, domain, dir, lang) ==
    [writing |-> TRUE,
     context |-> <<"None">>,
     markers |-> <<>>,
     colspecs |-> <<>>,
     table_row_index |-> 0,
     text |-> <<>>,
     translator |-> translation(dir, lang, lang = "en")]

\* __init__ raises what gettext.translation raises.
MarkdownTranslator_raises(document, domain, dir, lang) ==
    translation_raises(dir, lang, lang = "en")

Last(s) == s[Len(s)]

\* append with its operands swapped.
append_swapped(this, text) ==
    IF this.writing THEN [this EXCEPT !.text = text \o @] ELSE this

append(this, text) ==
    IF this.writing THEN [this EXCEPT !.text = @ \o text] ELSE this

\* translate without the strip of the raw source.
translate_unstripped(this, node) ==
    append(this, gettext(this.translator, node.rawsource))

translate(this, node) ==
    append(this, gettext(this.translator, strip(node.rawsource)))

astext(this) == this.text

\* A fallback hook that writes the node's tag name instead of doing nothing.
getattr_hook_writes(this, node) ==
    [this EXCEPT !.text = @ \o <<"<", node.tagname, ">">>]

\* __getattr__: the hook of a kind with no visit_/depart_ method.
getattr_hook(this, node) == this

visit_Text(this, node) ==
    IF Last(this.context) = "block-raw" THEN append(this, node.astext) ELSE this

depart_document(this, node) == [this EXCEPT !.text = ButLast(@)]

visit_system_message(this, node) == [this EXCEPT !.writing = FALSE]

depart_system_message(this, node) == [this EXCEPT !.writing = TRUE]

visit_raw(this, node) ==
    IF node.parent # "paragraph"
    THEN [this EXCEPT !.context = Append(@, "block-raw")]
    ELSE this

\* depart_raw popping the context whatever the parent is.
depart_raw_always_pops(this, node) ==
    append([this EXCEPT !.context = ButLast(@)], <<NL, NL>>)

depart_raw(this, node) ==
    IF node.parent # "paragraph"
    THEN append([this EXCEPT !.context = ButLast(@)], <<NL, NL>>)
    ELSE this

visit_block_quote(this, node) ==
    [this EXCEPT !.context = Append(@, "block-quote")]

depart_block_quote(this, node) == [this EXCEPT !.context = ButLast(@)]

visit_paragraph(this, node) ==
    translate(IF Last(this.context) = "block-quote"
              THEN append(this, <<">", " ">>)
              ELSE this,
              node)

\* depart_paragraph with the blank line written inside lists too.
depart_paragraph_blank_in_lists(this, node) ==
    IF Last(this.context) \notin {"th", "td"}
    THEN append(this, <<NL, NL>>)
    ELSE this

depart_paragraph(this, node) ==
    IF Last(this.context) \notin {"th", "td"}
    THEN LET one == append(this, <<NL>>)
         IN  IF one.markers = <<>> THEN append(one, <<NL>>) ELSE one
    ELSE this

visit_literal_block(this, node) ==
    append(append(this, Fence \o node.language \o <<NL>>), node.rawsource)

depart_literal_block(this, node) ==
    append(this, Fence \o <<NL, NL>>)

visit_section(this, node) ==
    append(this, Repeat(<<"#">>, node.level) \o <<" ">>)

visit_title(this, node) == translate(this, node)

\* depart_title ending the line without the blank line after it.
depart_title_one_newline(this, node) == append(this, <<NL>>)

depart_title(this, node) == append(this, <<NL, NL>>)

visit_bullet_list(this, node) ==
    [this EXCEPT !.markers = Append(@, <<"*">>)]

visit_enumerated_list(this, node) ==
    [this EXCEPT !.markers = Append(@, <<"1", ".">>)]

depart_bullet_list(this, node) ==
    LET popped == [this EXCEPT !.markers = ButLast(@)]
    IN  IF popped.markers = <<>> THEN append(popped, <<NL>>) ELSE popped

depart_enumerated_list(this, node) ==
    LET popped == [this EXCEPT !.markers = ButLast(@)]
    IN  IF popped.markers = <<>> THEN append(popped, <<NL>>) ELSE popped

\* self.markers[-1] of an empty list raises IndexError, after the indent
\* (the empty string then) was appended.
visit_list_item_raises(this, node) == this.markers = <<>>

\* visit_list_item with the marker of the outermost open list.
visit_list_item_outer_marker(this, node) ==
    LET indented == append(this, Repeat(<<" ", " ">>, Len(this.markers) - 1))
    IN  IF visit_list_item_raises(this, node)
        THEN indented
        ELSE append(indented, Head(this.markers) \o <<" ">>)

visit_list_item(this, node) ==
    LET indented == append(this, Repeat(<<" ", " ">>, Len(this.markers) - 1))
    IN  IF visit_list_item_raises(this, node)
        THEN indented
        ELSE append(indented, Last(this.markers) \o <<" ">>)

\* dict.update(attributes): a key the dictionary holds keeps its place and takes
\* the new value, a new key goes last.
RECURSIVE update(_, _)
update(atts, attributes) ==
    IF attributes = <<>>
    THEN atts
    ELSE LET a == Head(attributes)
             merged ==
                 IF \E i \in 1..Len(atts) : atts[i].name = a.name
                 THEN [i \in 1..Len(atts) |->
                          IF atts[i].name = a.name THEN a ELSE atts[i]]
                 ELSE Append(atts, a)
         IN  update(merged, Tail(attributes))

\* ' '.join(parts) after the tag name: ' name="value"' for every attribute.
RECURSIVE JoinAttributes(_)
JoinAttributes(atts) ==
    IF atts = <<>>
    THEN <<>>
    ELSE <<" ">> \o lower(Chars(Head(atts).name)) \o <<"=", "\"">>
         \o Head(atts).value \o <<"\"">> \o JoinAttributes(Tail(atts))

Truthy(a) == a.value # <<>>

html_tag(this, node, tagname, suffix, empty, attributes) ==
    LET name == IF node # None THEN node.tagname ELSE tagname
        atts == update(IF node # None
                       THEN SelectSeq(node.attributes, Truthy)
                       ELSE <<>>,
                       attributes)
        infix == IF empty THEN <<" ", "/">> ELSE <<>>
    IN  append(this,
               <<"<">> \o Chars(name) \o JoinAttributes(atts) \o infix \o <<">">>
               \o suffix)

close_html_tag(this, node, tagname, suffix) ==
    append(this,
           <<"<", "/">> \o Chars(IF tagname # "" THEN tagname ELSE node.tagname)
           \o <<">">> \o suffix)

ColWidthSum(this) ==
    SumSeq([i \in 1..Len(this.colspecs) |-> this.colspecs[i].colwidth])

\* The percentage with a half rounded down.
ColPercent_half_down(colwidth, width) ==
    (2 * (colwidth * 100) + width - 1) \div (2 * width)

\* int(colwidth * 100.0 / width + 0.5), for a non-negative colwidth and a
\* positive width: the sum as one fraction, truncated.  The floating-point
\* quotient and sum are within 2^-45 of the exact ones, and the exact sum is an
\* integer or at least 1/(2*width) away from one, so for the widths of 32-bit
\* integers the truncation is that of the exact sum.
ColPercent(colwidth, width) == (2 * (colwidth * 100) + width) \div (2 * width)

RECURSIVE write_cols(_, _, _)
write_cols(this, colspecs, width) ==
    IF colspecs = <<>>
    THEN this
    ELSE write_cols(html_tag(this, None, "col", <<NL>>, TRUE,
                             <<[name |-> "width",
                                value |-> str(ColPercent(Head(colspecs).colwidth,
                                                         width)) \o <<"%">>]>>),
                    Tail(colspecs), width)

\* The division by width raises ZeroDivisionError when the widths sum to 0.
write_colspecs_raises(this) == this.colspecs # <<>> /\ ColWidthSum(this) = 0

\* When it raises, the colgroup tag is written and the list is kept.
write_colspecs(this) ==
    IF this.colspecs = <<>>
    THEN this
    ELSE LET opened == html_tag(this, None, "colgroup", <<NL>>, FALSE, <<>>)
             width == ColWidthSum(this)
         IN  IF width = 0
             THEN opened
             ELSE close_html_tag(
                      [write_cols(opened, this.colspecs, width)
                          EXCEPT !.colspecs = <<>>],
                      None, "colgroup", <<NL>>)

visit_table(this, node) ==
    html_tag([this EXCEPT !.table_row_index = 0], node, "", <<NL>>, FALSE,
             <<[name |-> "border", value |-> <<"1">>],
               [name |-> "CLASS",
                value |-> <<"d", "o", "c", "u", "t", "i", "l", "s">>]>>)

depart_table(this, node) == close_html_tag(this, node, "", <<NL, NL>>)

visit_colspec(this, node) == [this EXCEPT !.colspecs = Append(@, node)]

visit_thead_raises(this, node) == write_colspecs_raises(this)

visit_thead(this, node) ==
    IF write_colspecs_raises(this)
    THEN write_colspecs(this)
    ELSE html_tag(write_colspecs(this), node, "", <<NL>>, FALSE,
                  <<[name |-> "valign",
                     value |-> <<"b", "o", "t", "t", "o", "m">>]>>)

depart_thead(this, node) == close_html_tag(this, node, "", <<NL>>)

visit_tbody_raises(this, node) == write_colspecs_raises(this)

visit_tbody(this, node) ==
    IF write_colspecs_raises(this)
    THEN write_colspecs(this)
    ELSE html_tag(write_colspecs(this), node, "", <<NL>>, FALSE,
                  <<[name |-> "valign", value |-> <<"t", "o", "p">>]>>)

depart_tbody(this, node) == close_html_tag(this, node, "", <<NL>>)

visit_row(this, node) ==
    LET counted == [this EXCEPT !.table_row_index = @ + 1]
    IN  html_tag(counted, None, "tr", <<NL>>, FALSE,
                 <<[name |-> "CLASS",
                    value |-> IF counted.table_row_index % 2 # 0
                              THEN <<"r", "o", "w", "-", "o", "d", "d">>
                              ELSE <<"r", "o", "w", "-", "e", "v", "e", "n">>]>>)

depart_row(this, node) == close_html_tag(this, None, "tr", <<NL>>)

visit_entry(this, node) ==
    LET tagname == IF node.grandparent = "thead" THEN "th" ELSE "td"
        atts == IF node.grandparent = "thead"
                THEN <<[name |-> "class", value |-> <<"h", "e", "a", "d">>]>>
                ELSE <<>>
    IN  html_tag([this EXCEPT !.context = Append(@, tagname)], None, tagname,
                 <<>>, FALSE, atts)

\* depart_entry closing a td whatever the entry opened.
depart_entry_closes_td(this, node) ==
    close_html_tag([this EXCEPT !.context = ButLast(@)], None, "td", <<NL>>)

depart_entry(this, node) ==
    close_html_tag([this EXCEPT !.context = ButLast(@)], None,
                   Last(this.context), <<NL>>)

\* ----------------------------------------------------------------- the walk

\* No instance yet.
NoInstance ==
    [writing |-> FALSE, context |-> <<>>, markers |-> <<>>, colspecs |-> <<>>,
     table_row_index |-> 0, text |-> <<>>, translator |-> {}]

Document == Node("document")

\* Before render is called: the language asked for, the size of the tree,
\* whether the tree walked is recorded, and the render calls made on it (more
\* than one only when it is recorded).
Start(languages, nodes, recorded, renders) ==
    /\ pc = "new"
    /\ language \in languages
    /\ limit = nodes
    /\ record = recorded
    /\ calls = renders
    /\ call = 1
    /\ self = NoInstance
    /\ shadow = NoInstance
    /\ path = <<>>
    /\ visited = 0
    /\ pos = 0
    /\ walked = <<>>
    /\ trace = <<>>
    /\ tables = <<>>
    /\ dpc = "idle"
    /\ overwrite = "unset"
    /\ dated = [v \in Versions |-> FALSE]
    /\ version = 1
    /\ fs = [v \in Versions |-> Absent]
    /\ before = fs

Init == Start(Languages, MaxNodes, FALSE, 1)

\* What a call leaves for the comparison with the next call on the same tree.
Traced(this, at) ==
    IF calls > 1 /\ call = 1 THEN Append(trace, [self |-> this, pc |-> at]) ELSE trace

\* MarkdownTranslator(document, domain, localedir, language)
Construct ==
    /\ pc = "new"
    /\ IF MarkdownTranslator_raises(Document, "domain", LocaleDir, language)
       THEN pc' = "error" /\ UNCHANGED <<self, shadow>>
       ELSE /\ pc' = "walk"
            /\ self' = MarkdownTranslator(Document, "domain", LocaleDir, language)
            /\ shadow' = self'
    /\ trace' = Traced(self', pc')
    /\ UNCHANGED <<language, limit, record, calls, call, path, visited, pos, walked,
                   tables>>
    /\ UNCHANGED downloadvars

\* A node in the subtree of a system_message, or one.
Suppressed(p) == \E i \in 1..Len(p) : p[i].tagname = "system_message"

\* The node as a child of the node being visited.
Child(n) ==
    [n EXCEPT !.parent = Last(path).tagname,
              !.grandparent = IF Len(path) >= 2
                              THEN path[Len(path) - 1].tagname
                              ELSE ""]

never_raises(this, node) == FALSE

\* The walk makes this hook call next: in the first call on any node the tree
\* may hold there, in a later call on the node the tree holds there.
Walks(name, node) ==
    IF call = 1
    THEN (name = "visit" /\ node # Document) => visited < limit
    ELSE pos < Len(walked) /\ walked[pos + 1] = [hook |-> name, node |-> node]

\* A table the walk has just entered: no row, no tgroup child and no colspec
\* met in it yet, no column group written in it.
NewTable == [rows |-> 0, stage |-> "", colspecs |-> <<>>, flushes |-> 0]

ColgroupTag == <<"<">> \o Chars("colgroup") \o <<">", NL>>

\* The innermost open table after the enter hook of a node in it that is not a
\* table: its rows counted, the last tgroup, colspec, thead or tbody met in it,
\* its colspecs, and the column groups written in it.
Noted(t, node, added) ==
    [t EXCEPT
        !.rows = IF node.tagname = "row" THEN @ + 1 ELSE @,
        !.stage = IF node.tagname \in {"tgroup", "colspec", "thead", "tbody"}
                  THEN node.tagname
                  ELSE @,
        !.colspecs = IF node.tagname = "colspec" THEN Append(@, node) ELSE @,
        !.flushes = IF /\ Len(added) >= Len(ColgroupTag)
                       /\ SubSeq(added, 1, Len(ColgroupTag)) = ColgroupTag
                    THEN @ + 1
                    ELSE @]

\* The open tables after a hook call: a table is open from its enter hook to
\* its exit hook.
TablesAfter(name, node, added) ==
    IF name = "visit"
    THEN IF node.tagname = "table"
         THEN Append(tables, NewTable)
         ELSE IF tables = <<>>
              THEN tables
              ELSE [tables EXCEPT ![Len(tables)] = Noted(@, node, added)]
    ELSE IF node.tagname = "table" THEN ButLast(tables) ELSE tables

\* The hook call is counted and, if asked for, recorded.
Walked(name, node) ==
    /\ tables' = TablesAfter(name, node,
                             SubSeq(self'.text, Len(self.text) + 1,
                                    Len(self'.text)))
    /\ visited' = IF call = 1 /\ name = "visit" /\ node # Document
                  THEN visited + 1
                  ELSE visited
    /\ walked' = IF record /\ call = 1
                 THEN Append(walked, [hook |-> name, node |-> node])
                 ELSE walked
    /\ pos' = IF record THEN pos + 1 ELSE pos
    /\ trace' = Traced(self', pc')
    /\ UNCHANGED <<language, limit, record, calls, call>>
    /\ UNCHANGED downloadvars

\* document.walkabout(visitor): dispatch_visit of a child of the open node,
\* one of the given nodes.
VisitAny(nodes, hook(_, _), raises(_, _)) ==
    /\ pc = "walk"
    /\ path # <<>>
    /\ Last(path).tagname \notin Leaves
    /\ \E n \in nodes :
          LET node == Child(n)
          IN  /\ Walks("visit", node)
              /\ path' = Append(path, node)
              /\ self' = hook(self, node)
              /\ pc' = IF raises(self, node) THEN "error" ELSE "walk"
              /\ shadow' = IF Suppressed(path') THEN shadow ELSE hook(shadow, node)
              /\ Walked("visit", node)

\* dispatch_visit of a child of the open node, any node of the kind.
Visit(tagname, hook(_, _), raises(_, _)) ==
    VisitAny(Nodes(tagname), hook, raises)

\* dispatch_departure of the open node, once its children are walked.
Depart(tagname, hook(_, _)) ==
    /\ pc = "walk"
    /\ Len(path) > 1
    /\ Last(path).tagname = tagname
    /\ Walks("depart", Last(path))
    /\ self' = hook(self, Last(path))
    /\ shadow' = IF Suppressed(path) THEN shadow ELSE hook(shadow, Last(path))
    /\ path' = ButLast(path)
    /\ pc' = pc
    /\ Walked("depart", Last(path))

VisitDocument ==
    /\ pc = "walk"
    /\ path = <<>>
    /\ Walks("visit", Document)
    /\ path' = <<Document>>
    /\ self' = getattr_hook(self, Document)
    /\ shadow' = getattr_hook(shadow, Document)
    /\ pc' = pc
    /\ Walked("visit", Document)

\* The walk ends and the caller reads astext().
DepartDocument ==
    /\ pc = "walk"
    /\ path = <<Document>>
    /\ Walks("depart", Document)
    /\ self' = depart_document(self, Document)
    /\ shadow' = depart_document(shadow, Document)
    /\ path' = <<>>
    /\ pc' = "done"
    /\ Walked("depart", Document)

\* The same tree is rendered again, by a new instance.
RenderAgain ==
    /\ pc \in {"done", "error"}
    /\ call < calls
    /\ call' = call + 1
    /\ pc' = "new"
    /\ path' = <<>>
    /\ pos' = 0
    /\ tables' = <<>>
    /\ UNCHANGED <<language, limit, record, calls, self, shadow, visited, walked,
                   trace>>
    /\ UNCHANGED downloadvars

VisitUnknown == \E k \in UnknownKinds : Visit(k, getattr_hook, never_raises)
DepartUnknown == \E k \in UnknownKinds : Depart(k, getattr_hook)
VisitText == Visit("Text", visit_Text, never_raises)
DepartText == Depart("Text", getattr_hook)
VisitSystemMessage == Visit("system_message", visit_system_message, never_raises)
DepartSystemMessage == Depart("system_message", depart_system_message)
VisitRaw == Visit("raw", visit_raw, never_raises)
DepartRaw == Depart("raw", depart_raw)
VisitBlockQuote == Visit("block_quote", visit_block_quote, never_raises)
DepartBlockQuote == Depart("block_quote", depart_block_quote)
VisitParagraph == Visit("paragraph", visit_paragraph, never_raises)
DepartParagraph == Depart("paragraph", depart_paragraph)
VisitLiteralBlock == Visit("literal_block", visit_literal_block, never_raises)
DepartLiteralBlock == Depart("literal_block", depart_literal_block)
VisitSection == Visit("section", visit_section, never_raises)
DepartSection == Depart("section", getattr_hook)
VisitTitle == Visit("title", visit_title, never_raises)
DepartTitle == Depart("title", depart_title)
VisitBulletList == Visit("bullet_list", visit_bullet_list, never_raises)
DepartBulletList == Depart("bullet_list", depart_bullet_list)
VisitEnumeratedList ==
    Visit("enumerated_list", visit_enumerated_list, never_raises)
DepartEnumeratedList == Depart("enumerated_list", depart_enumerated_list)
VisitListItem == Visit("list_item", visit_list_item, visit_list_item_raises)
DepartListItem == Depart("list_item", getattr_hook)
VisitTable == Visit("table", visit_table, never_raises)
DepartTable == Depart("table", depart_table)
VisitColspec == Visit("colspec", visit_colspec, never_raises)
DepartColspec == Depart("colspec", getattr_hook)
VisitThead == Visit("thead", visit_thead, visit_thead_raises)
DepartThead == Depart("thead", depart_thead)
VisitTbody == Visit("tbody", visit_tbody, visit_tbody_raises)
DepartTbody == Depart("tbody", depart_tbody)
VisitRow == Visit("row", visit_row, never_raises)
DepartRow == Depart("row", depart_row)
VisitEntry == Visit("entry", visit_entry, never_raises)
DepartEntry == Depart("entry", depart_entry)

Next ==
    \/ Construct
    \/ VisitDocument
    \/ DepartDocument
    \/ VisitUnknown
    \/ DepartUnknown
    \/ VisitText
    \/ DepartText
    \/ VisitSystemMessage
    \/ DepartSystemMessage
    \/ VisitRaw
    \/ DepartRaw
    \/ VisitBlockQuote
    \/ DepartBlockQuote
    \/ VisitParagraph
    \/ DepartParagraph
    \/ VisitLiteralBlock
    \/ DepartLiteralBlock
    \/ VisitSection
    \/ DepartSection
    \/ VisitTitle
    \/ DepartTitle
    \/ VisitBulletList
    \/ DepartBulletList
    \/ VisitEnumeratedList
    \/ DepartEnumeratedList
    \/ VisitListItem
    \/ DepartListItem
    \/ VisitTable
    \/ DepartTable
    \/ VisitColspec
    \/ DepartColspec
    \/ VisitThead
    \/ DepartThead
    \/ VisitTbody
    \/ DepartTbody
    \/ VisitRow
    \/ DepartRow
    \/ VisitEntry
    \/ DepartEntry

Spec == Init /\ [][Next]_vars

\* Trees of sections, titles and paragraphs, recorded.
InitTitles == Start({"en", "fr"}, MaxTitleNodes, TRUE, 1)

NextTitles ==
    \/ Construct
    \/ VisitDocument
    \/ DepartDocument
    \/ VisitSection
    \/ DepartSection
    \/ VisitTitle
    \/ DepartTitle
    \/ VisitParagraph
    \/ DepartParagraph

SpecTitles == InitTitles /\ [][NextTitles]_vars

\* Trees with system messages around and inside headings, paragraphs, quotes
\* and lists.
InitMessages == Start({"en"}, MaxMessageNodes, FALSE, 1)

NextMessages ==
    \/ Construct
    \/ VisitDocument
    \/ DepartDocument
    \/ VisitSystemMessage
    \/ DepartSystemMessage
    \/ VisitSection
    \/ DepartSection
    \/ VisitTitle
    \/ DepartTitle
    \/ VisitParagraph
    \/ DepartParagraph
    \/ VisitBlockQuote
    \/ DepartBlockQuote
    \/ VisitBulletList
    \/ DepartBulletList
    \/ VisitListItem
    \/ DepartListItem

SpecMessages == InitMessages /\ [][NextMessages]_vars

\* Trees of the kinds that push on the context and marker stacks, also below
\* system messages, with paragraphs as the parents of inline raw nodes.
InitStacks == Start({"en"}, MaxStackNodes, FALSE, 1)

NextStacks ==
    \/ Construct
    \/ VisitDocument
    \/ DepartDocument
    \/ VisitSystemMessage
    \/ DepartSystemMessage
    \/ VisitRaw
    \/ DepartRaw
    \/ VisitBlockQuote
    \/ DepartBlockQuote
    \/ VisitParagraph
    \/ DepartParagraph
    \/ VisitBulletList
    \/ DepartBulletList
    \/ VisitEnumeratedList
    \/ DepartEnumeratedList
    \/ VisitEntry
    \/ DepartEntry

SpecStacks == InitStacks /\ [][NextStacks]_vars

\* Two render calls on one recorded tree, of kinds that between them change
\* every attribute of the instance.
InitTwice == Start(Languages, MaxTwiceNodes, TRUE, 2)

NextTwice ==
    \/ Construct
    \/ VisitDocument
    \/ DepartDocument
    \/ RenderAgain
    \/ VisitSystemMessage
    \/ DepartSystemMessage
    \/ VisitBlockQuote
    \/ DepartBlockQuote
    \/ VisitParagraph
    \/ DepartParagraph
    \/ VisitBulletList
    \/ DepartBulletList
    \/ VisitColspec
    \/ DepartColspec
    \/ VisitThead
    \/ DepartThead
    \/ VisitRow
    \/ DepartRow

SpecTwice == InitTwice /\ [][NextTwice]_vars

\* Trees of bullet lists, enumerated lists and list items.
InitLists == Start({"en"}, MaxListNodes, FALSE, 1)

NextLists ==
    \/ Construct
    \/ VisitDocument
    \/ DepartDocument
    \/ VisitBulletList
    \/ DepartBulletList
    \/ VisitEnumeratedList
    \/ DepartEnumeratedList
    \/ VisitListItem
    \/ DepartListItem

SpecLists == InitLists /\ [][NextLists]_vars

\* The open node is of one of the kinds.
Under(kinds) == path # <<>> /\ Last(path).tagname \in kinds

\* The last tgroup, colspec, thead or tbody met in the innermost open table is
\* one of these ("" for none yet).
Stage(stages) == tables # <<>> /\ Last(tables).stage \in stages

VisitTgroup == Visit("tgroup", getattr_hook, never_raises)
DepartTgroup == Depart("tgroup", getattr_hook)

\* The table nodes where a docutils tree has them: a table in the document or
\* in a cell; in the table one tgroup; in the tgroup the colspecs, then at most
\* one thead, then the tbody; rows in thead and tbody; entries in rows.  The
\* tables have no attributes of their own.
PlacedTable ==
    /\ Under({"document", "entry"})
    /\ VisitAny({Node("table")}, visit_table, never_raises)
PlacedTgroup == Under({"table"}) /\ Stage({""}) /\ VisitTgroup
PlacedColspec == Under({"tgroup"}) /\ Stage({"tgroup", "colspec"}) /\ VisitColspec
PlacedThead == Under({"tgroup"}) /\ Stage({"tgroup", "colspec"}) /\ VisitThead
PlacedTbody ==
    Under({"tgroup"}) /\ Stage({"tgroup", "colspec", "thead"}) /\ VisitTbody
PlacedRow == Under({"thead", "tbody"}) /\ VisitRow
PlacedEntry == Under({"row"}) /\ VisitEntry

\* Trees of tables with their rows and cells, one table after the other and
\* one in a cell of the other.
InitTables == Start({"en"}, MaxTableNodes, FALSE, 1)

NextTables ==
    \/ Construct
    \/ VisitDocument
    \/ DepartDocument
    \/ PlacedTable
    \/ DepartTable
    \/ PlacedTgroup
    \/ DepartTgroup
    \/ PlacedThead
    \/ DepartThead
    \/ PlacedTbody
    \/ DepartTbody
    \/ PlacedRow
    \/ DepartRow
    \/ PlacedEntry
    \/ DepartEntry

SpecTables == InitTables /\ [][NextTables]_vars

\* A colspec of any of the widths, where a tgroup has its colspecs.
PlacedWidth ==
    /\ Under({"tgroup"})
    /\ Stage({"tgroup", "colspec"})
    /\ VisitAny({[Node("colspec") EXCEPT !.colwidth = w] : w \in Widths},
                visit_colspec, never_raises)

\* Trees of tables with columns of many widths.
InitWidths == Start({"en"}, MaxWidthNodes, FALSE, 1)

NextWidths ==
    \/ Construct
    \/ VisitDocument
    \/ DepartDocument
    \/ PlacedTable
    \/ DepartTable
    \/ PlacedTgroup
    \/ DepartTgroup
    \/ PlacedWidth
    \/ DepartColspec
    \/ PlacedThead
    \/ DepartThead
    \/ PlacedTbody
    \/ DepartTbody

SpecWidths == InitWidths /\ [][NextWidths]_vars

\* Trees of tables with their column specifications and row groups, one table
\* after the other.
InitColumns == Start({"en"}, MaxColumnNodes, FALSE, 1)

NextColumns ==
    \/ Construct
    \/ VisitDocument
    \/ DepartDocument
    \/ PlacedTable
    \/ DepartTable
    \/ PlacedTgroup
    \/ DepartTgroup
    \/ PlacedColspec
    \/ DepartColspec
    \/ PlacedThead
    \/ DepartThead
    \/ PlacedTbody
    \/ DepartTbody

SpecColumns == InitColumns /\ [][NextColumns]_vars

\* What a cell holds besides tables: block quotes, raw nodes and lists.
CellBlockQuote == Under({"entry"}) /\ VisitBlockQuote
CellRaw == Under({"entry"}) /\ VisitRaw
CellBulletList == Under({"entry"}) /\ VisitBulletList

\* Trees of tables whose cells hold block quotes, raw nodes, lists and tables.
InitCells == Start({"en"}, MaxCellNodes, FALSE, 1)

NextCells ==
    \/ Construct
    \/ VisitDocument
    \/ DepartDocument
    \/ PlacedTable
    \/ DepartTable
    \/ PlacedTgroup
    \/ DepartTgroup
    \/ PlacedThead
    \/ DepartThead
    \/ PlacedTbody
    \/ DepartTbody
    \/ PlacedRow
    \/ DepartRow
    \/ PlacedEntry
    \/ DepartEntry
    \/ CellBlockQuote
    \/ DepartBlockQuote
    \/ CellRaw
    \/ DepartRaw
    \/ CellBulletList
    \/ DepartBulletList

SpecCells == InitCells /\ [][NextCells]_vars

\* Text-bearing nodes where a docutils tree has them: titles, paragraphs, block
\* quotes and raw nodes as body elements of the document or of a block quote
\* (a title in the document only); in a title or paragraph its Text nodes and
\* raw nodes, as an inline raw role gives them; in a raw node its Text.
BodyTitle == Under({"document"}) /\ VisitTitle
BodyParagraph == Under({"document", "block_quote"}) /\ VisitParagraph
BodyBlockQuote == Under({"document", "block_quote"}) /\ VisitBlockQuote
BodyRaw == Under({"document", "block_quote"}) /\ VisitRaw
InlineRaw == Under({"title", "paragraph"}) /\ VisitRaw
InlineText == Under({"title", "paragraph", "raw"}) /\ VisitText

\* Trees of titles, paragraphs, block quotes, raw nodes and text.
InitTexts == Start({"en", "fr"}, MaxTextNodes, FALSE, 1)

NextTexts ==
    \/ Construct
    \/ VisitDocument
    \/ DepartDocument
    \/ BodyTitle
    \/ DepartTitle
    \/ BodyParagraph
    \/ DepartParagraph
    \/ BodyBlockQuote
    \/ DepartBlockQuote
    \/ BodyRaw
    \/ InlineRaw
    \/ DepartRaw
    \/ InlineText
    \/ DepartText

SpecTexts == InitTexts /\ [][NextTexts]_vars

\* ----------------------------------------------------- the download command

\* What is there becomes what was there before the next run.
Aged(dir) == [dir EXCEPT !.age = "old"]

\* The loop of handle goes on to the next version, or ends.
NextVersion ==
    IF version < MaxVersions
    THEN version' = version + 1 /\ dpc' = "is_dir"
    ELSE version' = version /\ dpc' = "done"

\* The condition with "or" binding tighter than "and".
Removes_or_first(option, date) == (option = "any" \/ option = "live") /\ ~date

\* The condition under which handle removes an existing version directory.
Removes(option, date) == option = "any" \/ (option = "live" /\ ~date)

\* The condition under which handle skips an existing version directory.
Skips(option, date) == option = "none" \/ (option = "live" /\ date)

InitDownload ==
    /\ Start({"en"}, 0, FALSE, 1)

\* The command is run: handle starts on the first version, with the output
\* directory as any earlier run or the user left it.
handle ==
    /\ dpc \in {"idle", "done", "CommandError", "failed"}
    /\ overwrite' \in OverwriteChoices \cup {"unset"}
    /\ dated' \in [Versions -> BOOLEAN]
    /\ IF dpc = "idle"
       THEN fs' \in [Versions -> Directories]
       ELSE fs' = [v \in Versions |-> Aged(fs[v])]
    /\ before' = fs'
    /\ version' = 1
    /\ dpc' = "is_dir"
    /\ UNCHANGED rendervars

\* if version_directory.is_dir(): rmtree, continue, or neither
handle_is_dir ==
    /\ dpc = "is_dir"
    /\ IF fs[version].exists
       THEN IF Removes(overwrite, dated[version])
            THEN /\ fs' = [fs EXCEPT ![version] = Absent]
                 /\ dpc' = "mkdir"
                 /\ UNCHANGED version
            ELSE IF Skips(overwrite, dated[version])
                 THEN NextVersion /\ UNCHANGED fs
                 ELSE dpc' = "mkdir" /\ UNCHANGED <<fs, version>>
       ELSE dpc' = "mkdir" /\ UNCHANGED <<fs, version>>
    /\ UNCHANGED <<overwrite, dated, before>>
    /\ UNCHANGED rendervars

\* version_directory.mkdir(parents=True); FileExistsError becomes CommandError
handle_mkdir ==
    /\ dpc = "mkdir"
    /\ IF fs[version].exists
       THEN dpc' = "CommandError" /\ UNCHANGED fs
       ELSE /\ fs' = [fs EXCEPT ![version] = Directory("none", "new")]
            /\ dpc' = "get"
    /\ UNCHANGED <<overwrite, dated, version, before>>
    /\ UNCHANGED rendervars

\* requests.get and raise_for_status: the archive, or an exception handle does
\* not catch.
handle_get ==
    /\ dpc = "get"
    /\ dpc' \in {"extract", "failed"}
    /\ UNCHANGED <<overwrite, dated, version, fs, before>>
    /\ UNCHANGED rendervars

\* ZipFile and the extraction of its files: all of them, or an exception
\* handle does not catch, before the first file or after some.
handle_extract ==
    /\ dpc = "extract"
    /\ \/ /\ fs' = [fs EXCEPT ![version] = Directory("all", "new")]
          /\ NextVersion
       \/ /\ \E f \in {"none", "some"} :
                fs' = [fs EXCEPT ![version] = Directory(f, "new")]
          /\ dpc' = "failed"
          /\ UNCHANGED version
    /\ UNCHANGED <<overwrite, dated, before>>
    /\ UNCHANGED rendervars

NextDownload ==
    \/ handle
    \/ handle_is_dir
    \/ handle_mkdir
    \/ handle_get
    \/ handle_extract

SpecDownload == InitDownload /\ [][NextDownload]_vars

\* ------------------------------------------------------------------ claims

\* The step is the enter hook of a node / the exit hook of a node.
VisitStep == pc = "walk" /\ Len(path') = Len(path) + 1
DepartStep == pc = "walk" /\ Len(path') = Len(path) - 1

IsPrefix(s, t) == Len(s) <= Len(t) /\ SubSeq(t, 1, Len(s)) = s

\* What a step added to the output buffer.
Added == SubSeq(self'.text, Len(self.text) + 1, Len(self'.text))

\* C4: the enter and the exit hook of a node of a kind with no visit_/depart_
\* method do not fail and leave the whole instance as it was: writing flag,
\* context stack, marker stack, pending colspecs, row counter and output.
C4_UnknownHooksChangeNothing ==
    [][/\ (VisitStep /\ Last(path').tagname \in UnknownKinds)
            => (self' = self /\ pc' = "walk")
       /\ (DepartStep /\ Last(path).tagname \in UnknownKinds)
            => (self' = self /\ pc' = "walk")]_vars

\* C4 witness: a node of an unknown kind is open, entered after output was
\* written and inside an open list.
C4_Witness ==
    /\ pc = "walk"
    /\ Len(path) = 3
    /\ Last(path).tagname \in UnknownKinds
    /\ self.markers # <<>>

\* C10: every hook but the exit hook of the document leaves the earlier output
\* as a prefix of the output; the buffer gets shorter only in the one step
\* that ends the walk, and there by one character.
C10_AppendOnly ==
    [][/\ pc' # "done" => IsPrefix(self.text, self'.text)
       /\ Len(self'.text) < Len(self.text)
            => (pc = "walk" /\ pc' = "done" /\ path = <<Document>>
                /\ self'.text = ButLast(self.text))]_vars

\* C10 witness: a walk that wrote output has ended with the trim.
C10_Witness == pc = "done" /\ Len(self.text) >= 2

\* C5, as claimed: the exit hook of the document removes exactly one character
\* and that character is a newline.
C5_TrimRemovesOneNewline ==
    [][(pc = "walk" /\ pc' = "done")
          => (/\ self.text # <<>>
              /\ Last(self.text) = NL
              /\ self'.text = ButLast(self.text))]_vars

\* C6, as claimed: entering a thead or tbody with pending colspecs whose widths
\* sum to zero does not fail and writes the opening tag of the group only.
C6_ZeroWidthSkipsFlush ==
    [][(/\ VisitStep
        /\ Last(path').tagname \in {"thead", "tbody"}
        /\ self.colspecs # <<>>
        /\ ColWidthSum(self) = 0)
          => (/\ pc' = "walk"
              /\ self'.text =
                    html_tag(self, Last(path'), "", <<NL>>, FALSE,
                             <<[name |-> "valign",
                                value |-> IF Last(path').tagname = "thead"
                                          THEN <<"b", "o", "t", "t", "o", "m">>
                                          ELSE <<"t", "o", "p">>]>>).text)]_vars

\* The tree document -> section(level=1) -> [title "Intro", paragraph "Hello"].
C1Section == [Node("section") EXCEPT !.level = 1, !.parent = "document"]
C1Title ==
    [Node("title") EXCEPT !.rawsource = Intro, !.parent = "section",
                          !.grandparent = "document"]
C1Paragraph ==
    [Node("paragraph") EXCEPT !.rawsource = Hello, !.parent = "section",
                              !.grandparent = "document"]

C1Walk ==
    <<[hook |-> "visit", node |-> Document],
      [hook |-> "visit", node |-> C1Section],
      [hook |-> "visit", node |-> C1Title],
      [hook |-> "depart", node |-> C1Title],
      [hook |-> "visit", node |-> C1Paragraph],
      [hook |-> "depart", node |-> C1Paragraph],
      [hook |-> "depart", node |-> C1Section],
      [hook |-> "depart", node |-> Document]>>

\* The output buffer after each hook call of that walk.
C1Buffers ==
    <<<<>>,
      <<"#", " ">>,
      <<"#", " ">> \o Presentation,
      <<"#", " ">> \o Presentation \o <<NL, NL>>,
      <<"#", " ">> \o Presentation \o <<NL, NL>> \o Bonjour,
      <<"#", " ">> \o Presentation \o <<NL, NL>> \o Bonjour \o <<NL, NL>>,
      <<"#", " ">> \o Presentation \o <<NL, NL>> \o Bonjour \o <<NL, NL>>,
      <<"#", " ">> \o Presentation \o <<NL, NL>> \o Bonjour \o <<NL>>>>

\* C1: with language "fr", the tree document -> section(level=1) -> [title
\* "Intro", paragraph "Hello"] renders as "# Présentation\n\nBonjour\n": the
\* section writes "# ", the title its translation and two newlines, the
\* paragraph its translation and two newlines, and the exit hook of the
\* document takes the last newline away.
C1_EndToEnd ==
    \A k \in 1..Len(C1Walk) :
        (language = "fr" /\ walked = SubSeq(C1Walk, 1, k))
            => /\ self.text = C1Buffers[k]
               /\ k = Len(C1Walk) => (pc = "done" /\ astext(self) = C1Buffers[k])

\* C1 witness: that tree has been rendered with language "fr".
C1_Witness == pc = "done" /\ language = "fr" /\ walked = C1Walk

\* What the enter hook of a paragraph writes before its text.
QuoteMark(this, node) ==
    IF node.tagname = "paragraph" /\ Last(this.context) = "block-quote"
    THEN <<">", " ">>
    ELSE <<>>

\* The step is the enter hook of a title or paragraph, with writing on.
TextStep ==
    VisitStep /\ Last(path').tagname \in {"title", "paragraph"} /\ self.writing

C3_SuppressedSubtreesWriteNothing ==
    [][/\ (VisitStep /\ Suppressed(path')) => self'.text = self.text
       /\ (DepartStep /\ Suppressed(path)) => self'.text = self.text
       /\ ((VisitStep /\ ~Suppressed(path')) \/ (DepartStep /\ ~Suppressed(path)))
            => Added = SubSeq(shadow'.text, Len(shadow.text) + 1,
                              Len(shadow'.text))]_vars

\* The open nodes of the given kinds.
Open(kinds) == {i \in 1..Len(path) : path[i].tagname \in kinds}

\* The open raw nodes whose parent is not a paragraph.
OpenBlockRaw ==
    {i \in 1..Len(path) :
        path[i].tagname = "raw" /\ path[i].parent # "paragraph"}

\* C9: at every point of a walk, one marker is on the marker stack for every
\* open bullet_list and enumerated_list, and above its first entry the context
\* stack holds one entry for every open block_quote, raw node whose parent is
\* not a paragraph, and entry; once the document is left the context stack is
\* the single none entry and the marker stack is empty.
C9_StackDepths ==
    (pc \in {"walk", "done"} \/ (pc = "error" /\ path # <<>>))
        => /\ Len(self.markers)
                = Cardinality(Open({"bullet_list", "enumerated_list"}))
           /\ Len(self.context)
                = 1 + Cardinality(Open({"block_quote", "entry"}))
                    + Cardinality(OpenBlockRaw)
           /\ pc = "done" => (self.context = <<"None">> /\ self.markers = <<>>)

\* C9 witness: below a system message, a list, a quote and a raw node are
\* open, one in the other.
C9_Witness ==
    /\ pc = "walk"
    /\ ~self.writing
    /\ Len(path) = 5
    /\ Len(self.markers) = 1
    /\ Len(self.context) = 3

\* C7: the second render call on a tree goes through the states the first
\* call went through, from the new instance to the result or the error, and
\* so returns the same output; nothing of the first instance is in the second.
C7_SecondCallRepeatsFirst ==
    (call = 2 /\ pc # "new")
        => /\ pos + 1 <= Len(trace)
           /\ trace[pos + 1] = [self |-> self, pc |-> pc]
           /\ pc \in {"done", "error"} => pos + 1 = Len(trace)
           /\ pc = "done" => astext(self) = astext(trace[Len(trace)].self)

\* C7 witness: the second call has returned its output, for a tree whose walk
\* leaves a pending colspec behind.
C7_Witness ==
    /\ call = 2
    /\ pc = "done"
    /\ self.colspecs # <<>>
    /\ self.text # <<>>

\* The run in progress has dealt with the version: the loop went past it.
Processed(v) == dpc # "idle" /\ (v < version \/ dpc = "done")

\* The run in progress is at the version and past the is_dir test.
Reached(v) == v = version /\ dpc \in {"mkdir", "get", "extract", "failed", "CommandError"}

\* The directory was removed and the version is downloaded again: it is gone
\* or written by this run, and once dealt with it holds all the files.
DownloadedAgain(v) ==
    /\ Reached(v) => (fs[v] # before[v] /\ (fs[v].exists => fs[v].age = "new")
                      /\ dpc # "CommandError")
    /\ Processed(v) => fs[v] = Directory("all", "new")

\* The version is skipped: its directory stays as it was, and no step of the
\* download is taken on it.
LeftUntouched(v) ==
    /\ fs[v] = before[v]
    /\ ~Reached(v)

\* C8: for a version whose directory exists when the command is run: with
\* --overwrite any it is removed and downloaded again; with none it is skipped
\* and left untouched; with live it is removed and downloaded again when the
\* version has no date and skipped and left untouched when it has one; without
\* --overwrite the command fails with CommandError and the directory is not
\* modified.
C8_Overwrite ==
    \A v \in Versions :
        (dpc # "idle" /\ before[v].exists)
            => /\ overwrite = "any" => DownloadedAgain(v)
               /\ overwrite = "none" => LeftUntouched(v)
               /\ (overwrite = "live" /\ ~dated[v]) => DownloadedAgain(v)
               /\ (overwrite = "live" /\ dated[v]) => LeftUntouched(v)
               /\ overwrite = "unset"
                    => /\ fs[v] = before[v]
                       /\ ~Processed(v)
                       /\ Reached(v) => dpc \in {"mkdir", "CommandError"}

\* C8 witness: a run with --overwrite live has ended; of two versions that
\* were there, the one without a date was downloaded again and the dated one
\* is as it was.
C8_Witness ==
    /\ dpc = "done"
    /\ overwrite = "live"
    /\ before[1].exists /\ ~dated[1] /\ fs[1] = Directory("all", "new")
    /\ before[2].exists /\ dated[2] /\ fs[2] = before[2]

\* The step is the exit hook of a paragraph, with writing on.
ParagraphExit == DepartStep /\ Last(path).tagname = "paragraph" /\ self.writing

\* The enter hook of a paragraph, with writing on, writes the quote mark if the
\* innermost context is a block quote, then the catalog's text for the stripped
\* source.
ParagraphEnterWritesTranslation ==
    (TextStep /\ Last(path').tagname = "paragraph")
        => Added = QuoteMark(self, Last(path'))
                   \o gettext(self.translator, strip(Last(path').rawsource))

\* C11, as claimed: with writing on, a paragraph writes its translation on
\* enter and always a newline on exit, and a second newline exactly when no
\* list is open and the innermost context is not a table cell.
C11_ParagraphAlwaysEndsLine ==
    [][/\ ParagraphEnterWritesTranslation
       /\ ParagraphExit
            => Added = <<NL>> \o (IF /\ self.markers = <<>>
                                     /\ Last(self.context) \notin {"th", "td"}
                                  THEN <<NL>>
                                  ELSE <<>>)]_vars

\* C11, amended: with writing on, a paragraph writes its translation on enter;
\* on exit it writes nothing when the innermost context is a table cell, and
\* otherwise a newline, and a second newline exactly when no list is open.
C11_ParagraphNewlines ==
    [][/\ ParagraphEnterWritesTranslation
       /\ ParagraphExit
            => Added = (IF Last(self.context) \in {"th", "td"}
                        THEN <<>>
                        ELSE IF self.markers = <<>>
                             THEN <<NL, NL>>
                             ELSE <<NL>>)]_vars

\* C11 witness: a translated paragraph in a table cell has been left, and
\* nothing follows its text.
C11_Witness ==
    /\ pc = "walk"
    /\ visited = 2
    /\ Len(path) = 2
    /\ Last(path).tagname = "entry"
    /\ self.text = <<"<", "t", "d", ">">> \o Bonjour

\* The open lists, outermost first, as positions in the path.
OpenLists == Open({"bullet_list", "enumerated_list"})

\* The marker of a list of the given kind.
MarkerOf(tagname) == IF tagname = "bullet_list" THEN <<"*">> ELSE <<"1", ".">>

\* The innermost open list.
InnermostList == path[CHOOSE i \in OpenLists : \A j \in OpenLists : j <= i]

\* C12: the enter hook of a list_item with N >= 1 lists open writes 2*(N-1)
\* spaces, the marker of the innermost open list ("*" for a bullet_list, "1."
\* for an enumerated_list, whichever item of the list it is) and one space,
\* however bullet and enumerated lists are nested and also after an inner list
\* was closed.
C12_ListItemIndentAndMarker ==
    [][(/\ VisitStep
        /\ Last(path').tagname = "list_item"
        /\ OpenLists # {}
        /\ self.writing)
          => /\ pc' = "walk"
             /\ Added = Repeat(<<" ">>, 2 * (Cardinality(OpenLists) - 1))
                        \o MarkerOf(InnermostList.tagname) \o <<" ">>]_vars

\* C12 witness: the second item of an enumerated list is entered after a
\* bullet list inside its first item was closed.
C12_Witness ==
    /\ pc = "walk"
    /\ Len(path) = 3
    /\ path[2].tagname = "enumerated_list"
    /\ path[3].tagname = "list_item"
    /\ self.text = <<"1", ".", " ", " ", " ", "*", " ", "1", ".", " ">>

\* The opening tag of the k-th row of a table.
RowTag(k) ==
    <<"<", "t", "r", " ", "c", "l", "a", "s", "s", "=", "\"", "r", "o", "w", "-">>
    \o (IF k % 2 = 1 THEN <<"o", "d", "d">> ELSE <<"e", "v", "e", "n">>)
    \o <<"\"", ">", NL>>

\* C13, as claimed: the enter hook of the k-th row of a table, counted over the
\* head and the body of that table alone, writes the row tag with class
\* "row-odd" when k is odd and "row-even" when k is even, for tables one after
\* the other and for a table with another table in one of its cells.
C13_RowsAlternatePerTable ==
    [][(VisitStep /\ Last(path').tagname = "row" /\ tables # <<>>)
          => Added = RowTag(Last(tables').rows)]_vars

\* The col tag of a column of the given percentage.
ColTag(percent) ==
    <<"<", "c", "o", "l", " ", "w", "i", "d", "t", "h", "=", "\"">>
    \o str(percent) \o <<"%", "\"", " ", "/", ">", NL>>

RECURSIVE ColTags(_, _)
ColTags(colspecs, width) ==
    IF colspecs = <<>>
    THEN <<>>
    ELSE ColTag(ColPercent(Head(colspecs).colwidth, width))
         \o ColTags(Tail(colspecs), width)

\* The column group of the colspecs: nothing for no colspec.
Colgroup(colspecs) ==
    IF colspecs = <<>>
    THEN <<>>
    ELSE ColgroupTag
         \o ColTags(colspecs,
                    SumSeq([i \in 1..Len(colspecs) |-> colspecs[i].colwidth]))
         \o <<"<", "/", "c", "o", "l", "g", "r", "o", "u", "p", ">", NL>>

\* The opening tag of a thead or tbody.
GroupTag(tagname) ==
    IF tagname = "thead"
    THEN <<"<", "t", "h", "e", "a", "d", " ", "v", "a", "l", "i", "g", "n", "=",
           "\"", "b", "o", "t", "t", "o", "m", "\"", ">", NL>>
    ELSE <<"<", "t", "b", "o", "d", "y", " ", "v", "a", "l", "i", "g", "n", "=",
           "\"", "t", "o", "p", "\"", ">", NL>>

\* The step is the enter hook of a thead or tbody of a table.
GroupStep ==
    VisitStep /\ Last(path').tagname \in {"thead", "tbody"} /\ tables # <<>>

IsSuffix(s, t) ==
    Len(s) <= Len(t) /\ SubSeq(t, Len(t) - Len(s) + 1, Len(t)) = s

\* The enter hook of a colspec writes nothing and puts the node at the end of
\* the pending list.
ColspecOnlyAccumulated ==
    (VisitStep /\ Last(path').tagname = "colspec")
        => /\ Added = <<>>
           /\ self'.colspecs = Append(self.colspecs, Last(path'))

\* In a table the column group is written at most once: the enter hook of the
\* first of thead and tbody finds the colspecs of the table at the end of the
\* pending list, and the enter hook of the second writes its opening tag only.
ColgroupAtFirstGroupOnly ==
    GroupStep
        => /\ Last(tables').flushes <= 1
           /\ Last(tables).stage \notin {"thead", "tbody"}
                => IsSuffix(Last(tables).colspecs, self.colspecs)
           /\ Last(tables).stage \in {"thead", "tbody"}
                => /\ Added = GroupTag(Last(path').tagname)
                   /\ Last(tables').flushes = Last(tables).flushes

\* The enter hook of a thead or tbody writes the column group with one col tag
\* per pending colspec in visit order, then its opening tag, and empties the
\* pending list.
FlushWritesColTags ==
    /\ pc' = "walk"
    /\ Added = Colgroup(self.colspecs) \o GroupTag(Last(path').tagname)
    /\ self'.colspecs = <<>>

\* C14, as claimed: colspec nodes write nothing and are only accumulated; in a
\* table the column group is written at most once, by the enter hook of the
\* first of thead and tbody before its opening tag, with one col tag per
\* pending colspec in visit order; the flush empties the pending list, and
\* the second of thead and tbody writes no column group.
C14_ColgroupOncePerTable ==
    [][/\ ColspecOnlyAccumulated
       /\ ColgroupAtFirstGroupOnly
       /\ GroupStep => FlushWritesColTags]_vars

\* C14 holds of every flush that does not raise: of all but the flushes of
\* pending colspecs whose widths sum to zero.
ColgroupOncePerTableUnlessRaised ==
    [][/\ ColspecOnlyAccumulated
       /\ ColgroupAtFirstGroupOnly
       /\ (GroupStep /\ ~write_colspecs_raises(self)) => FlushWritesColTags]_vars

\* C14 witness: the tbody of a table with two colspecs and a thead is entered,
\* and one column group was written in the table.
C14_Witness ==
    /\ pc = "walk"
    /\ Len(tables) = 1
    /\ Last(path).tagname = "tbody"
    /\ Len(Last(tables).colspecs) = 2
    /\ Last(tables).flushes = 1
    /\ self.colspecs = <<>>
    /\ Len(self.text) > Len(Colgroup(Last(tables).colspecs))

\* C18, as claimed: the pending list is empty at every table exit, and the
\* colspecs pending when the thead or tbody of a table is entered are the
\* colspecs of that table.
C18_PendingNotCarriedOver ==
    [][/\ (DepartStep /\ Last(path).tagname = "table") => self.colspecs = <<>>
       /\ GroupStep => self.colspecs = Last(tables).colspecs]_vars

\* The integer p with p <= x + 1/2 < p + 1 for x = 100 * w / total: x rounded
\* to the nearest integer, a half rounded up.  It is looked for from 0 to 100.
RoundHalfUp(w, total) ==
    CHOOSE p \in 0..100 :
        /\ 2 * total * p <= 200 * w + total
        /\ 200 * w + total < 2 * total * (p + 1)

RECURSIVE RoundedColTags(_, _)
RoundedColTags(widths, total) ==
    IF widths = <<>>
    THEN <<>>
    ELSE ColTag(RoundHalfUp(Head(widths), total))
         \o RoundedColTags(Tail(widths), total)

\* The widths of the pending colspecs.
PendingWidths == [i \in 1..Len(self.colspecs) |-> self.colspecs[i].colwidth]

\* C15: when the enter hook of a thead or tbody writes the column group of
\* pending colspecs whose widths have a positive total, the col tag of a column
\* of width w gives w * 100 / total rounded to the nearest integer, a half
\* rounded up, followed by "%"; every percentage is from 0 to 100, and a
\* column whose width is the total gets 100.
C15_PercentRoundedHalfUp ==
    [][(GroupStep /\ self.colspecs # <<>> /\ SumSeq(PendingWidths) > 0)
          => /\ pc' = "walk"
             /\ Added = ColgroupTag
                        \o RoundedColTags(PendingWidths, SumSeq(PendingWidths))
                        \o <<"<", "/", "c", "o", "l", "g", "r", "o", "u", "p",
                              ">", NL>>
                        \o GroupTag(Last(path').tagname)
             /\ \A i \in 1..Len(PendingWidths) :
                   /\ ColPercent(PendingWidths[i], SumSeq(PendingWidths))
                        \in 0..100
                   /\ PendingWidths[i] = SumSeq(PendingWidths)
                        => ColPercent(PendingWidths[i], SumSeq(PendingWidths))
                           = 100]_vars

\* C15 witness: the thead of a table with columns of widths 30 and 70 is
\* entered, and the col tags written give 30% and 70%.
C15_Witness ==
    /\ pc = "walk"
    /\ Len(tables) = 1
    /\ Last(path).tagname = "thead"
    /\ Len(Last(tables).colspecs) = 2
    /\ Last(tables).colspecs[1].colwidth = 30
    /\ Last(tables).colspecs[2].colwidth = 70
    /\ IsSuffix(ColgroupTag
                \o <<"<", "c", "o", "l", " ", "w", "i", "d", "t", "h", "=", "\"",
                      "3", "0", "%", "\"", " ", "/", ">", NL>>
                \o <<"<", "c", "o", "l", " ", "w", "i", "d", "t", "h", "=", "\"",
                      "7", "0", "%", "\"", " ", "/", ">", NL>>
                \o <<"<", "/", "c", "o", "l", "g", "r", "o", "u", "p", ">", NL>>
                \o GroupTag("thead"),
                self.text)

\* The open nodes that have an entry on the context stack.
ContextNodes == Open({"block_quote", "entry"}) \cup OpenBlockRaw

\* The innermost context is "block-raw": of the open nodes with an entry on the
\* context stack, the innermost is a raw node.
InBlockRaw ==
    /\ ContextNodes # {}
    /\ path[CHOOSE i \in ContextNodes : \A j \in ContextNodes : j <= i].tagname
         = "raw"

\* The step is a hook call on a node below an open title or paragraph.
BelowTextStep ==
    \/ VisitStep /\ Open({"title", "paragraph"}) # {}
    \/ DepartStep /\ \E i \in Open({"title", "paragraph"}) : i < Len(path)

\* C16, as claimed: the enter hook of a Text node writes the text of the node
\* if the innermost context is "block-raw" and writing is on, and nothing
\* otherwise; and no hook called on a node below a title or paragraph (its
\* Text nodes, its raw nodes and their Text) writes anything, so that the text
\* of the title or paragraph is written once, by its own enter hook.
C16_TextWrittenOnce ==
    [][/\ (VisitStep /\ Last(path').tagname = "Text")
            => Added = (IF InBlockRaw /\ self.writing
                        THEN Last(path').astext
                        ELSE <<>>)
       /\ BelowTextStep => Added = <<>>]_vars

\* The element of a cell: "th" for an entry whose grandparent is a thead, "td"
\* for any other; p is the path with the entry last.
CellTag(p) ==
    IF Len(p) >= 3 /\ p[Len(p) - 2].tagname = "thead" THEN "th" ELSE "td"

\* C17: the enter hook of an entry writes the opening tag of a th with class
\* "head" when the grandparent of the entry is a thead and of a td otherwise,
\* and the exit hook of the entry writes the closing tag of the same element,
\* whatever the cell holds: block quotes, raw nodes, lists or another table
\* with entries of its own.  What the exit hook takes off the context stack is
\* what the enter hook of this entry put there.
C17_CellTagsMatch ==
    [][/\ (VisitStep /\ Last(path').tagname = "entry")
            => /\ Added = (IF CellTag(path') = "th"
                           THEN <<"<", "t", "h", " ", "c", "l", "a", "s", "s",
                                  "=", "\"", "h", "e", "a", "d", "\"", ">">>
                           ELSE <<"<", "t", "d", ">">>)
               /\ self'.context = Append(self.context, CellTag(path'))
       /\ (DepartStep /\ Last(path).tagname = "entry")
            => /\ Added = (IF CellTag(path) = "th"
                           THEN <<"<", "/", "t", "h", ">", NL>>
                           ELSE <<"<", "/", "t", "d", ">", NL>>)
               /\ Last(self.context) = CellTag(path)
               /\ self'.context = ButLast(self.context)]_vars

\* C17 witness: a header cell is closed after the table in it, with a body
\* cell of its own, was closed.
C17_Witness ==
    /\ pc = "walk"
    /\ Len(path) = 5
    /\ Last(path).tagname = "row"
    /\ path[4].tagname = "thead"
    /\ IsSuffix(<<"<", "/", "t", "d", ">", NL, "<", "/", "t", "r", ">", NL,
                  "<", "/", "t", "b", "o", "d", "y", ">", NL,
                  "<", "/", "t", "a", "b", "l", "e", ">", NL, NL,
                  "<", "/", "t", "h", ">", NL>>,
                self.text)

\* The run in progress has ended: with all versions dealt with, with
\* CommandError, or with another exception.
RunEnded == dpc \in {"done", "CommandError", "failed"}

\* C19, as claimed: a run that has ended, also one ended by a failed request or
\* a failed extraction, leaves behind no version directory that it made
\* without the files of the version downloaded and extracted into it.
C19_NoDirectoryWithoutFiles ==
    RunEnded
        => \A v \in Versions :
              (fs[v].exists /\ fs[v].age = "new") => fs[v].files = "all"

====
